---- MODULE Spec2Model ----
(***************************************************************************)
(* piNAS dashboard: the three dashboard variants                           *)
(*   masterpiece  src/docs/masterpiece-dashboard.py                        *)
(*   new          src/docs/new-dashboard.py                                *)
(*   redesigned   src/docs/redesigned-dashboard.py                         *)
(* modelled as state machines: the main loop with its touch poll, debounce *)
(* and screen navigation (Spec), the touch calibration map_touch as a      *)
(* function of the sensor report (SpecTouch), the bounded history deques   *)
(* (SpecHist), the usage-bar colour tiers (SpecBar), the circular progress *)
(* indicator (SpecGauge), the sparkline and line charts (SpecChart), the   *)
(* composition of a frame (SpecCompose), the parameters of the boot        *)
(* animation (SpecBootFrame) and the life cycle of the process from the    *)
(* boot animation to the shutdown on a signal (SpecLife).                  *)
(*                                                                         *)
(* Time is counted in ticks of 50 ms: time.time() is the variable now,     *)
(* 0.2 s is 4 ticks, 0.3 s is 6 ticks, 0.5 s is 10 ticks.                  *)
(***************************************************************************)
EXTENDS Integers, Sequences, FiniteSets, TLC

VARIABLES
    variant,          \* which dashboard file runs
    driver,           \* touch driver name chosen by init_display_and_touch ("None": no touch)
    pc,               \* position of the main loop / of the function under check
    now,              \* time.time(), in ticks
    current_time,     \* main(): the loop's local current_time
    last_update,      \* main(): last_update
    current_screen,   \* global current_screen
    last_touch_time,  \* global last_touch_time
    animation_phase,  \* global animation_phase, counted in steps of 0.1
    sensor,           \* what the touch controller reported at the last poll
    touch_pos,        \* outcome of the last map_touch call
    fired,            \* drive action invoked by the last handle_touch call
    accepted,         \* number of touches that passed the debounce
    frames,           \* number of frames handed to display.image by the main loop
    error,            \* the call whose exception left main()
    maxlen,           \* deque(maxlen=...) of the four history buffers
    history,          \* cpu_history, memory_history, disk_history, network_history
    pushed,           \* every value ever appended to each history, in order
    used_percent,     \* USBDrive.used_percent of the drive whose bar is drawn
    bar,              \* usage bar fill drawn for it, per screen
    percent,          \* draw_circular_progress: its argument percent, in tenths
    arcs,             \* draw_circular_progress: the draw.arc calls it made, in order
    data,             \* draw_sparkline / draw_chart: the history buffer passed as data
    chart,            \* draw_sparkline / draw_chart: what the call drew and how it ended
    sample,           \* main(): stats, as the number of the metric sample read
    n_drives,         \* main(): drives, as the number of drives found
    system,           \* what the operating system answers: wall clock, smbstatus, findmnt
    composed,         \* the frames composed so far, in order
    frame,            \* draw_boot_animation / draw_shutdown_animation: the loop's frame
    boot,             \* draw_boot_animation: the parameters of the frame it rendered
    activity,         \* what the current loop iteration has done so far
    boot_shown,       \* frames draw_boot_animation handed to display.image
    shutdown_shown,   \* animated frames draw_shutdown_animation handed to display.image
    last_image,       \* the image last handed to display.image
    signals,          \* number of termination signals delivered to the process
    net_io,           \* psutil.net_io_counters(): bytes_sent + bytes_recv so far
    last_net,         \* get_system_stats.last_net, None while the attribute is unset
    net_reads,        \* the counter readings get_system_stats has taken, with their times
    shown_at          \* the number of accepted touches when the last frame was displayed

vars == <<variant, driver, pc, now, current_time, last_update, current_screen,
          last_touch_time, animation_phase, sensor, touch_pos, fired, accepted,
          frames, error, maxlen, history, pushed, used_percent, bar,
          percent, arcs, data, chart, sample, n_drives, system, composed,
          frame, boot, activity, boot_shown, shutdown_shown, last_image, signals,
          net_io, last_net, net_reads, shown_at>>

loopVars == <<pc, now, current_time, last_update, current_screen, last_touch_time,
              animation_phase, sensor, touch_pos, fired, accepted, frames, error>>
histVars == <<maxlen, history, pushed>>
barVars == <<used_percent, bar>>
gaugeVars == <<percent, arcs>>
\* the variables of the drawing routines and of the process life cycle
chartVars == <<data, chart>>
composeVars == <<sample, n_drives, system, composed>>
animVars == <<frame, boot>>
lifeVars == <<activity, boot_shown, shutdown_shown, last_image, signals>>
netVars == <<net_io, last_net, net_reads>>
paceVars == <<shown_at>>
extVars == <<gaugeVars, chartVars, composeVars, animVars, lifeVars, netVars,
             paceVars>>

gaugeParked == /\ percent = 0
               /\ arcs = <<>>

chartParked == /\ data = <<>>
               /\ chart = <<>>

composeParked == /\ sample = 0
                 /\ n_drives = 0
                 /\ system = <<>>
                 /\ composed = <<>>

animParked == /\ frame = 0
              /\ boot = <<>>

lifeParked == /\ activity = <<>>
              /\ boot_shown = 0
              /\ shutdown_shown = 0
              /\ last_image = <<>>
              /\ signals = 0

netParked == /\ net_io = 0
             /\ last_net = <<>>
             /\ net_reads = <<>>

paceParked == shown_at = 0

extParked == /\ gaugeParked
             /\ chartParked
             /\ composeParked
             /\ animParked
             /\ lifeParked
             /\ netParked
             /\ paceParked

-----------------------------------------------------------------------------
(* Bounds of the model *)

\* time.time() when main() starts, in ticks after the epoch value 0 that
\* last_touch_time and last_update start from
StartTime == 10
\* ticks of behaviour explored after StartTime
Horizon == 10
\* most drives that get_usb_drives() finds mounted
MaxDrives == 4

MaxTime == StartTime + Horizon

-----------------------------------------------------------------------------
(* Configuration constants of the three files *)

Variants == {"masterpiece", "new", "redesigned"}

WIDTH == 320
HEIGHT == 240

\* seconds given in milliseconds, as ticks of 50 ms
Ticks(ms) == ms \div 50

UPDATE_INTERVAL ==
    IF variant = "masterpiece" THEN Ticks(300) ELSE Ticks(500)

touch_debounce ==
    IF variant = "masterpiece" THEN Ticks(200) ELSE Ticks(300)

max_screens ==
    IF variant = "masterpiece" THEN 3 ELSE 2

\* time.sleep(...) at the end of a loop iteration
SleepTicks ==
    IF variant = "new" THEN Ticks(100) ELSE Ticks(50)

\* driver names init_display_and_touch can return besides None
DriverNames(v) ==
    IF v = "new" THEN {"stmpe610", "xpt2046"} ELSE {"STMPE610", "XPT2046"}

None == <<>>

Max(a, b) == IF a >= b THEN a ELSE b
Min(a, b) == IF a <= b THEN a ELSE b

\* Python's int() of the quotient n/d, d > 0: truncation toward zero
Trunc(n, d) == IF n >= 0 THEN n \div d ELSE -((-n) \div d)

-----------------------------------------------------------------------------
(* Touch calibrator: map_touch *)

\* what the touch controller does when polled: contact or not, the raw
\* coordinates it reads, and whether the read misbehaves
\*   io_error   reading the controller raises
\*   malformed  the data read cannot be unpacked into coordinates
Faults == {"none", "io_error", "malformed"}

SensorReport(c, x, y, f) == [contact |-> c, x_raw |-> x, y_raw |-> y, fault |-> f]

NoContact == SensorReport(FALSE, 0, 0, "none")

\* outcome of a call: a returned value, or an exception leaving the callee
Return(v) == [kind |-> "return", val |-> v]
Raise == [kind |-> "raise", val |-> None]

\* x_norm, y_norm clamped to [0,1], then int(y_norm * WIDTH) and
\* int((1.0 - x_norm) * HEIGHT): the axes are swapped and x is inverted.
\* The normalised values are kept as numerators over MAX - MIN, and int()
\* of the float product is the truncated exact quotient; on the readings
\* used below (RawLoopX, RawLoopY, RawSamples) the two agree.
CalibratedNoSwap(x_raw, y_raw, MIN_X, MAX_X, MIN_Y, MAX_Y) ==
    LET xn == Max(0, Min(MAX_X - MIN_X, x_raw - MIN_X))
        yn == Max(0, Min(MAX_Y - MIN_Y, y_raw - MIN_Y))
    IN  << Trunc(xn * WIDTH, MAX_X - MIN_X),
           Trunc(yn * HEIGHT, MAX_Y - MIN_Y) >>

Calibrated(x_raw, y_raw, MIN_X, MAX_X, MIN_Y, MAX_Y) ==
    LET xn == Max(0, Min(MAX_X - MIN_X, x_raw - MIN_X))
        yn == Max(0, Min(MAX_Y - MIN_Y, y_raw - MIN_Y))
    IN  << Trunc(yn * WIDTH, MAX_Y - MIN_Y),
           Trunc((MAX_X - MIN_X - xn) * HEIGHT, MAX_X - MIN_X) >>

\* new-dashboard's XPT2046 calibration for the 270 degree rotation: no
\* clamp of the normalised value, so the quotient can be negative
CalibratedXpt2046New(x_raw, y_raw) ==
    << Trunc((y_raw - 143) * WIDTH, 3715 - 143),
       Trunc((3786 - x_raw) * HEIGHT, 3786 - 216) >>

NoClampToScreen(p) == p

\* screen_x = max(0, min(WIDTH - 1, screen_x)), the same for screen_y
ClampToScreen(p) ==
    << Max(0, Min(WIDTH - 1, p[1])), Max(0, Min(HEIGHT - 1, p[2])) >>

\* a body that decodes whatever the registers hold, touched or not
map_touch_try_masterpiece_nocontactcheck(s, d) ==
    IF s.fault # "none" THEN Raise
    ELSE IF d = "STMPE610"
    THEN Return(ClampToScreen(Calibrated(s.x_raw, s.y_raw, 200, 3800, 200, 3800)))
    ELSE IF d = "XPT2046"
    THEN Return(ClampToScreen(Calibrated(s.x_raw, s.y_raw, 300, 3800, 300, 3800)))
    ELSE Raise

\* masterpiece: the body of map_touch's try block
map_touch_try_masterpiece(s, d) ==
    IF d = "STMPE610"
    THEN IF s.fault = "io_error" THEN Raise              \* touch.touched raises
         ELSE IF ~s.contact THEN Return(None)
         ELSE IF s.fault = "malformed" THEN Raise        \* x_raw, y_raw, z = ... fails
         ELSE Return(ClampToScreen(
                  Calibrated(s.x_raw, s.y_raw, 200, 3800, 200, 3800)))
    ELSE IF d = "XPT2046"
    THEN IF s.fault = "io_error" THEN Raise              \* touch.touch_point raises
         ELSE IF ~s.contact THEN Return(None)
         ELSE IF s.fault = "malformed" THEN Raise        \* x_raw, y_raw = ... fails
         ELSE Return(ClampToScreen(
                  Calibrated(s.x_raw, s.y_raw, 300, 3800, 300, 3800)))
    ELSE Raise                                           \* screen_x is unbound

map_touch_masterpiece_noexcept(s, d) == map_touch_try_masterpiece(s, d)

\* masterpiece: map_touch, the try block under its bare except
map_touch_masterpiece(s, d) ==
    LET r == map_touch_try_masterpiece(s, d)
    IN  IF r.kind = "raise" THEN Return(None) ELSE r

\* redesigned: the body of map_touch's try block
map_touch_try_redesigned(s, d) ==
    IF d = "STMPE610"
    THEN IF s.fault = "io_error" THEN Raise
         ELSE IF ~s.contact THEN Return(None)
         ELSE IF s.fault = "malformed" THEN Raise
         ELSE Return(ClampToScreen(
                  Calibrated(s.x_raw, s.y_raw, 200, 3800, 200, 3800)))
    ELSE IF d = "XPT2046"
    THEN IF s.fault = "io_error" THEN Raise
         ELSE IF ~s.contact THEN Return(None)
         ELSE IF s.fault = "malformed" THEN Raise
         ELSE Return(ClampToScreen(
                  Calibrated(s.x_raw, s.y_raw, 300, 3800, 300, 3800)))
    ELSE Raise

\* redesigned: map_touch
map_touch_redesigned(s, d) ==
    LET r == map_touch_try_redesigned(s, d)
    IN  IF r.kind = "raise" THEN Return(None) ELSE r

\* new: the body of map_touch's try block. touched / tirq_touched() and
\* touch_point all report the same contact.
map_touch_try_new(s, d) ==
    IF s.fault = "io_error" THEN Raise                   \* touched / touch_point raises
    ELSE IF ~s.contact THEN Return(None)                 \* not touched, or p is None
    ELSE IF s.fault = "malformed" THEN Raise             \* x_raw, y_raw, *_ = p fails
    ELSE IF d = "xpt2046"
    THEN Return(ClampToScreen(CalibratedXpt2046New(s.x_raw, s.y_raw)))
    ELSE Return(ClampToScreen(
             Calibrated(s.x_raw, s.y_raw, 200, 3800, 200, 3800)))

\* new: map_touch
map_touch_new(s, d) ==
    IF d = "None" THEN Return(None)                      \* touch is None
    ELSE LET r == map_touch_try_new(s, d)
         IN  IF r.kind = "raise" THEN Return(None) ELSE r

map_touch(s, d) ==
    CASE variant = "masterpiece" -> map_touch_masterpiece(s, d)
      [] variant = "new"         -> map_touch_new(s, d)
      [] variant = "redesigned"  -> map_touch_redesigned(s, d)

-----------------------------------------------------------------------------
(* Acquisition: get_system_stats, get_version_info, get_usb_drives *)

\* the reads an update makes, any one of which may fail
StatsReads == {"psutil.cpu_percent", "psutil.sensors_temperatures",
               "psutil.virtual_memory", "psutil.disk_usage",
               "psutil.net_io_counters", "socket.connect"}
VersionReads == {"open(VERSION_FILE)", "urlopen"}
DriveReads == {"os.listdir", "os.statvfs"}

\* get_system_stats with read f failing ("none": no failure): the reads
\* inside a try/except yield their default, the others raise.
\* new-dashboard wraps net_io_counters and the thermal file, not the rest.
get_system_stats(f) ==
    IF variant = "new"
    THEN IF f \in {"psutil.cpu_percent", "psutil.virtual_memory", "psutil.disk_usage"}
         THEN Raise ELSE Return(<<"stats">>)
    ELSE IF f \in {"psutil.cpu_percent", "psutil.virtual_memory",
                   "psutil.disk_usage", "psutil.net_io_counters"}
         THEN Raise ELSE Return(<<"stats">>)

\* get_version_info: both reads are wrapped ("unknown", True)
get_version_info(f) == Return(<<"version">>)

\* get_usb_drives with n mounted drives: os.listdir is not wrapped, the
\* os.statvfs in USBDrive.__init__ is (sizes 0). The list is modelled by
\* its length.
get_usb_drives(f, n) ==
    IF f = "os.listdir" THEN Raise ELSE Return(n)

-----------------------------------------------------------------------------
(* Navigation: handle_touch *)

NoAction == <<>>

\* masterpiece without the debounce test
handle_touch_masterpiece_nodebounce(x, y, drives) ==
    /\ last_touch_time' = now
    /\ current_screen' = (current_screen + 1) % max_screens
    /\ accepted' = accepted + 1
    /\ fired' = NoAction

\* masterpiece with <= in the debounce test
handle_touch_masterpiece_strict(x, y, drives) ==
    IF now - last_touch_time <= touch_debounce
    THEN /\ UNCHANGED <<current_screen, last_touch_time, accepted>>
         /\ fired' = NoAction
    ELSE /\ last_touch_time' = now
         /\ current_screen' = (current_screen + 1) % max_screens
         /\ accepted' = accepted + 1
         /\ fired' = NoAction

\* masterpiece advancing without the wrap
handle_touch_masterpiece_nowrap(x, y, drives) ==
    IF now - last_touch_time < touch_debounce
    THEN /\ UNCHANGED <<current_screen, last_touch_time, accepted>>
         /\ fired' = NoAction
    ELSE /\ last_touch_time' = now
         /\ current_screen' = Min(current_screen + 1, max_screens - 1)
         /\ accepted' = accepted + 1
         /\ fired' = NoAction

\* masterpiece: cycle through the screens on any touch
handle_touch_masterpiece(x, y, drives) ==
    IF now - last_touch_time < touch_debounce
    THEN /\ UNCHANGED <<current_screen, last_touch_time, accepted>>
         /\ fired' = NoAction
    ELSE /\ last_touch_time' = now
         /\ current_screen' = (current_screen + 1) % max_screens
         /\ accepted' = accepted + 1
         /\ fired' = NoAction

\* new: the drives the hit-test loop reaches before its break
\* (y_pos = 48 + 50 i, break when y_pos > HEIGHT - 60)
HitTested(drives) == {i \in 0 .. drives - 1 : 48 + 50 * i <= HEIGHT - 60}

button_y(i) == 48 + 50 * i + 25

ShareHit(i, x, y) ==
    /\ 5 <= x /\ x <= 60
    /\ button_y(i) <= y /\ y <= button_y(i) + 15

FormatHit(i, x, y) ==
    /\ 70 <= x /\ x <= 125
    /\ button_y(i) <= y /\ y <= button_y(i) + 15

\* new advancing to the next screen number instead of going back
handle_touch_new_advance(x, y, drives) ==
    IF now - last_touch_time < touch_debounce
    THEN /\ UNCHANGED <<current_screen, last_touch_time, accepted>>
         /\ fired' = NoAction
    ELSE /\ last_touch_time' = now
         /\ accepted' = accepted + 1
         /\ current_screen' = current_screen + 1
         /\ fired' = NoAction

\* new: screen 0 goes to the drives screen; on the drives screen a button
\* hit fires the drive's action and returns, any other touch goes back
handle_touch_new(x, y, drives) ==
    IF now - last_touch_time < touch_debounce
    THEN /\ UNCHANGED <<current_screen, last_touch_time, accepted>>
         /\ fired' = NoAction
    ELSE /\ last_touch_time' = now
         /\ accepted' = accepted + 1
         /\ IF current_screen = 0
            THEN /\ current_screen' = 1
                 /\ fired' = NoAction
            ELSE IF current_screen = 1
            THEN LET hits == {i \in HitTested(drives) :
                                 ShareHit(i, x, y) \/ FormatHit(i, x, y)}
                 IN  IF hits # {}
                     THEN LET i == CHOOSE j \in hits : \A k \in hits : j <= k
                          IN  /\ fired' = IF ShareHit(i, x, y)
                                          THEN <<"toggle_share", i>>
                                          ELSE <<"format_drive", i>>
                              /\ UNCHANGED current_screen
                     ELSE /\ current_screen' = 0
                          /\ fired' = NoAction
            ELSE /\ UNCHANGED current_screen
                 /\ fired' = NoAction

\* redesigned: screen 0 goes to the drives screen; on the drives screen
\* only the left half goes back
handle_touch_redesigned(x, y, drives) ==
    IF now - last_touch_time < touch_debounce
    THEN /\ UNCHANGED <<current_screen, last_touch_time, accepted>>
         /\ fired' = NoAction
    ELSE /\ last_touch_time' = now
         /\ accepted' = accepted + 1
         /\ fired' = NoAction
         /\ IF current_screen = 0
            THEN current_screen' = 1
            ELSE IF current_screen = 1 /\ x < 160
            THEN current_screen' = 0
            ELSE UNCHANGED current_screen

handle_touch(x, y, drives) ==
    CASE variant = "masterpiece" -> handle_touch_masterpiece(x, y, drives)
      [] variant = "new"         -> handle_touch_new(x, y, drives)
      [] variant = "redesigned"  -> handle_touch_redesigned(x, y, drives)

navVars == <<current_screen, last_touch_time, accepted, fired>>

-----------------------------------------------------------------------------
(* Main loop: main() *)

\* raw readings the loop's sensor reports: they map onto and off the
\* drive buttons of new-dashboard and onto both halves of the screen
RawLoopX == {200, 2600}
RawLoopY == {560, 1280, 3000}

SensorStatesLoop ==
    {SensorReport(TRUE, x, y, "none") : x \in RawLoopX, y \in RawLoopY}
    \cup {NoContact,
          SensorReport(FALSE, 0, 0, "io_error"),
          SensorReport(TRUE, 2600, 560, "io_error"),
          SensorReport(TRUE, 2600, 560, "malformed")}

histParked == /\ maxlen = 0
              /\ history = <<>>
              /\ pushed = <<>>

barParked == /\ used_percent = 0
             /\ bar = <<>>

Init ==
    /\ variant \in Variants
    /\ driver \in DriverNames(variant) \cup {"None"}
    /\ pc = "top"
    /\ now = StartTime
    /\ current_time = 0
    /\ last_update = 0
    /\ current_screen = 0
    /\ last_touch_time = 0
    /\ animation_phase = 0
    /\ sensor = NoContact
    /\ touch_pos = Return(None)
    /\ fired = NoAction
    /\ accepted = 0
    /\ frames = 0
    /\ error = "none"
    /\ histParked
    /\ barParked
    /\ extParked

\* the top of the loop without the step of the animation phase
LoopTopNoPhase ==
    /\ pc = "top"
    /\ current_time' = now
    /\ pc' = "touch"
    /\ UNCHANGED <<variant, driver, now, last_update, sensor, touch_pos,
                   animation_phase, frames, error, navVars, histVars, barVars,
                   extVars>>

\* while True: current_time = time.time(); animation_phase += 0.1
\* (only masterpiece keeps an animation phase)
LoopTop ==
    /\ pc = "top"
    /\ current_time' = now
    /\ animation_phase' = IF variant = "masterpiece"
                          THEN animation_phase + 1 ELSE animation_phase
    /\ pc' = "touch"
    /\ UNCHANGED <<variant, driver, now, last_update, sensor, touch_pos,
                   frames, error, navVars, histVars, barVars, extVars>>

\* if touch: touch_pos = map_touch(touch, driver)
\*           if touch_pos: handle_touch(x, y, get_usb_drives())
\* The argument get_usb_drives() is evaluated before handle_touch runs.
PollTouch ==
    /\ pc = "touch"
    /\ IF driver = "None"
       THEN /\ pc' = "update"
            /\ UNCHANGED <<sensor, touch_pos, error, navVars>>
       ELSE \E s \in SensorStatesLoop :
              LET r == map_touch(s, driver)
              IN  /\ sensor' = s
                  /\ touch_pos' = r
                  /\ IF r.kind = "raise"
                     THEN /\ pc' = "crashed"
                          /\ error' = "map_touch"
                          /\ UNCHANGED navVars
                     ELSE IF r.val = None
                     THEN /\ pc' = "update"
                          /\ UNCHANGED <<error, navVars>>
                     ELSE \E f \in {"none"} \cup DriveReads, n \in 0 .. MaxDrives :
                            LET d == get_usb_drives(f, n)
                            IN  IF d.kind = "raise"
                                THEN /\ pc' = "crashed"
                                     /\ error' = f
                                     /\ UNCHANGED navVars
                                ELSE /\ handle_touch(r.val[1], r.val[2], d.val)
                                     /\ pc' = "update"
                                     /\ UNCHANGED error
    /\ UNCHANGED <<variant, driver, now, current_time, last_update,
                   animation_phase, frames, histVars, barVars, extVars>>

\* if current_time - last_update >= UPDATE_INTERVAL: sample, draw the
\* current screen, display.image(image), last_update = current_time
Update ==
    /\ pc = "update"
    /\ IF current_time - last_update >= UPDATE_INTERVAL
       THEN \E f \in {"none"} \cup StatsReads \cup VersionReads \cup DriveReads,
               n \in 0 .. MaxDrives :
              LET stats == get_system_stats(f)
                  version == get_version_info(f)
                  drives == get_usb_drives(f, n)
              IN  IF stats.kind = "raise" \/ version.kind = "raise"
                     \/ drives.kind = "raise"
                  THEN /\ pc' = "crashed"
                       /\ error' = f
                       /\ UNCHANGED <<frames, last_update, shown_at>>
                  ELSE /\ frames' = frames + 1
                       /\ shown_at' = accepted
                       /\ last_update' = current_time
                       /\ pc' = "sleep"
                       /\ UNCHANGED error
       ELSE /\ pc' = "sleep"
            /\ UNCHANGED <<frames, last_update, error, shown_at>>
    /\ sensor' = NoContact          \* the poll's report and result are local
    /\ touch_pos' = Return(None)    \* to the iteration's touch step
    /\ UNCHANGED <<variant, driver, now, current_time, animation_phase,
                   navVars, histVars, barVars, gaugeVars, chartVars, composeVars,
                   animVars, lifeVars, netVars>>

\* time.sleep(0.05) (0.1 in new-dashboard)
Sleep ==
    /\ pc = "sleep"
    /\ now + SleepTicks <= MaxTime
    /\ now' = now + SleepTicks
    /\ pc' = "top"
    /\ UNCHANGED <<variant, driver, current_time, last_update, animation_phase,
                   sensor, touch_pos, frames, error, navVars, histVars, barVars, extVars>>

\* the clock advances while the loop computes, draws or oversleeps: between
\* the loop's read of time.time() and handle_touch's own read, and between
\* the update and the end of the sleep (no step from there to the next
\* read of the clock depends on when exactly the time passed)
Tick ==
    /\ pc \in {"touch", "sleep"}
    /\ now < MaxTime
    /\ now' = now + 1
    /\ UNCHANGED <<variant, driver, pc, current_time, last_update, animation_phase,
                   sensor, touch_pos, frames, error, navVars, histVars, barVars, extVars>>

Next == LoopTop \/ PollTouch \/ Update \/ Sleep \/ Tick

Spec == Init /\ [][Next]_vars

-----------------------------------------------------------------------------
(* Properties of the main loop, checked under Spec *)

\* the step in which the loop polled the sensor and called handle_touch
HandleTouchCalled ==
    /\ pc = "touch"
    /\ pc' = "update"
    /\ touch_pos'.val # None

\* the step in which the loop polled the sensor
Polled ==
    /\ pc = "touch"
    /\ pc' # "touch"
    /\ driver # "None"

\* C2: a handle_touch call made less than touch_debounce after the last
\* accepted touch is dropped: current_screen and last_touch_time keep their
\* values, the touch is not counted as accepted and no drive action
\* (toggle_share, format_drive) fires, in every variant.
C2_DebouncedTouchDropped ==
    [][ (HandleTouchCalled /\ now - last_touch_time < touch_debounce)
        => /\ current_screen' = current_screen
           /\ last_touch_time' = last_touch_time
           /\ accepted' = accepted
           /\ fired' = NoAction ]_vars

\* a touch was accepted earlier, and the call just made came inside the
\* debounce window and left last_touch_time behind the clock
C2_Witness ==
    /\ pc = "update"
    /\ touch_pos.val # None
    /\ accepted >= 1
    /\ last_touch_time < now
    /\ now - last_touch_time < touch_debounce

\* C3 as claimed: a touch is accepted only if the time since the last
\* accepted touch strictly exceeds touch_debounce, so one arriving exactly
\* touch_debounce after it is dropped.
C3_AcceptedOnlyStrictlyAfterDebounce ==
    [][ (HandleTouchCalled /\ accepted' = accepted + 1)
        => now - last_touch_time > touch_debounce ]_vars

\* C3 amended: a touch is accepted only if the time since the last
\* accepted touch is at least touch_debounce, and one arriving exactly
\* touch_debounce after it is accepted.
C3_AcceptedFromDebounceOn ==
    [][ HandleTouchCalled
        => /\ (accepted' = accepted + 1) => (now - last_touch_time >= touch_debounce)
           /\ (now - last_touch_time = touch_debounce)
                 => (accepted' = accepted + 1 /\ last_touch_time' = now) ]_vars

\* three touches accepted as early as the clock allows: the first when the
\* loop starts, the next two exactly touch_debounce after their predecessor
C3_Witness ==
    /\ accepted = 3
    /\ last_touch_time = StartTime + 2 * touch_debounce

\* C4: in masterpiece (three screens) navigation starts at Overview (0) and
\* every accepted touch moves to (current_screen + 1) mod 3, so the screen
\* is the number of accepted touches mod 3: 1 after one, 2 after two, 0
\* after three, whatever the coordinates.
C4_ThreeScreenCycle ==
    variant = "masterpiece"
        => /\ max_screens = 3
           /\ current_screen = accepted % 3

\* masterpiece has wrapped around: three accepted touches, back on Overview
C4_Witness ==
    /\ variant = "masterpiece"
    /\ accepted = 3
    /\ current_screen = 0

\* C5: when the sensor reports no contact, map_touch returns None, never
\* a point, for every variant and driver, and the loop goes on to its
\* update without calling handle_touch (navigation state unchanged).
C5_NoContactIsAbsent ==
    [][ (Polled /\ ~sensor'.contact)
        => /\ touch_pos' = Return(None)
           /\ pc' = "update"
           /\ UNCHANGED navVars ]_vars

\* a poll with a driver present found no contact, after a touch had been
\* accepted earlier
C5_Witness ==
    /\ pc = "update"
    /\ driver # "None"
    /\ sensor = NoContact
    /\ touch_pos = Return(None)
    /\ accepted >= 1

\* the try block of the running variant's map_touch
map_touch_try(s, d) ==
    CASE variant = "masterpiece" -> map_touch_try_masterpiece(s, d)
      [] variant = "new"         -> map_touch_try_new(s, d)
      [] variant = "redesigned"  -> map_touch_try_redesigned(s, d)

\* C6: an error raised while reading or decoding the sensor inside map_touch
\* (a failing read, malformed data, or a driver name whose branch is missing)
\* makes map_touch return None as for no touch: the loop goes on to its
\* update, the exception does not leave map_touch and the navigation state
\* is unchanged.
C6_SensorErrorIsAbsent ==
    /\ [][ (Polled /\ sensor'.fault # "none")
           => /\ touch_pos' = Return(None)
              /\ pc' = "update"
              /\ UNCHANGED navVars ]_vars
    /\ [](\A s \in SensorStatesLoop, d \in DriverNames(variant) \cup {"UNKNOWN"} :
             map_touch_try(s, d).kind = "raise" => map_touch(s, d) = Return(None))

\* a poll whose read failed or returned malformed data went by as no touch,
\* after a touch had been accepted earlier
C6_Witness ==
    /\ pc = "update"
    /\ sensor.fault # "none"
    /\ touch_pos = Return(None)
    /\ accepted >= 1

\* C9: a failing metrics, drive-enumeration or touch read never terminates
\* the main loop: no exception of an acquisition call leaves main().
C9_AcquisitionFailureNeverEndsLoop ==
    /\ pc # "crashed"
    /\ error = "none"

-----------------------------------------------------------------------------
(* map_touch as a function of the sensor report: SpecTouch *)

\* raw readings around the calibration bounds of every profile, inside the
\* range and outside it on both sides
RawSamples == {-50, 0, 143, 200, 216, 300, 2000, 3715, 3786, 3800, 4095, 5000}

SensorStatesTouch ==
    {SensorReport(TRUE, x, y, f) : x \in RawSamples, y \in RawSamples, f \in Faults}
    \cup {SensorReport(FALSE, 0, 0, f) : f \in Faults}

loopParked ==
    /\ now = StartTime
    /\ current_time = 0
    /\ last_update = 0
    /\ current_screen = 0
    /\ last_touch_time = 0
    /\ animation_phase = 0
    /\ fired = NoAction
    /\ accepted = 0
    /\ frames = 0
    /\ error = "none"

InitTouch ==
    /\ variant \in Variants
    /\ driver \in DriverNames(variant) \cup {"UNKNOWN"}
    /\ sensor \in SensorStatesTouch
    /\ touch_pos = Return(None)
    /\ pc = "call"
    /\ loopParked
    /\ histParked
    /\ barParked
    /\ extParked

\* touch_pos = map_touch(touch, driver)
MapTouchCall ==
    /\ pc = "call"
    /\ touch_pos' = map_touch(sensor, driver)
    /\ pc' = "returned"
    /\ UNCHANGED <<variant, driver, sensor, now, current_time, last_update,
                   animation_phase, frames, error, navVars, histVars, barVars, extVars>>

NextTouch == MapTouchCall

SpecTouch == InitTouch /\ [][NextTouch]_vars

\* the calibration range of the running profile: the literals of map_touch
ProfileMinX == IF variant = "new" /\ driver = "xpt2046" THEN 216
               ELSE IF driver = "XPT2046" THEN 300 ELSE 200
ProfileMaxX == IF variant = "new" /\ driver = "xpt2046" THEN 3786 ELSE 3800
ProfileMinY == IF variant = "new" /\ driver = "xpt2046" THEN 143
               ELSE IF driver = "XPT2046" THEN 300 ELSE 200
ProfileMaxY == IF variant = "new" /\ driver = "xpt2046" THEN 3715 ELSE 3800

KnownProfile == driver \in DriverNames(variant)

\* C7: raw input exactly at (MIN_X, MIN_Y) and exactly at (MAX_X, MAX_Y)
\* map to opposite corners of the screen; every profile swaps the axes and
\* inverts x, so the corners are (0, HEIGHT-1) and (WIDTH-1, 0), and no
\* coordinate equals WIDTH or HEIGHT.
C7_CalibrationCorners ==
    (pc = "returned" /\ KnownProfile /\ sensor.contact /\ sensor.fault = "none")
        => /\ (sensor.x_raw = ProfileMinX /\ sensor.y_raw = ProfileMinY)
                 => touch_pos = Return(<<0, HEIGHT - 1>>)
           /\ (sensor.x_raw = ProfileMaxX /\ sensor.y_raw = ProfileMaxY)
                 => touch_pos = Return(<<WIDTH - 1, 0>>)

\* the XPT2046 profile of new-dashboard was given its upper calibration
\* corner and returned the corner (WIDTH-1, 0)
C7_Witness ==
    /\ pc = "returned"
    /\ variant = "new"
    /\ driver = "xpt2046"
    /\ sensor = SensorReport(TRUE, 3786, 3715, "none")
    /\ touch_pos = Return(<<WIDTH - 1, 0>>)

\* C8: whatever the raw pair, also below MIN or above MAX, a point
\* returned by map_touch lies in [0, WIDTH-1] x [0, HEIGHT-1], for every
\* variant and driver.
C8_PointOnScreen ==
    (pc = "returned" /\ touch_pos.val # None)
        => /\ touch_pos.kind = "return"
           /\ 0 <= touch_pos.val[1] /\ touch_pos.val[1] <= WIDTH - 1
           /\ 0 <= touch_pos.val[2] /\ touch_pos.val[2] <= HEIGHT - 1

\* a reading below the range in x and above it in y came back as the
\* corner (WIDTH-1, HEIGHT-1)
C8_Witness ==
    /\ pc = "returned"
    /\ sensor.contact
    /\ sensor.x_raw < 0
    /\ sensor.y_raw > 4095
    /\ touch_pos = Return(<<WIDTH - 1, HEIGHT - 1>>)

-----------------------------------------------------------------------------
(* Bounded history buffers: SpecHist *)

\* largest deque capacity explored (the files use 100, 60 and 80)
MaxCapacity == 3
\* most updates explored
MaxPushes == 5
\* number of distinct metric samples an update can read
SampleKinds == 4

Metrics == {"cpu", "memory", "disk", "network"}

\* the k-th metric sample: cpu 10, 20, 30, 40 ..., net_speed_kb 300, 600, ...
Sample(k) == [cpu_percent |-> 10 * k, memory_percent |-> 10 * k + 1,
              disk_percent |-> 10 * k + 2, net_speed_kb |-> 300 * k]

\* a deque that refuses the new value when it is full
deque_append_keep_oldest(buf, v, n) ==
    IF Len(buf) >= n THEN buf ELSE Append(buf, v)

\* collections.deque(maxlen=n).append(v): when full, the item at the
\* other end is discarded
deque_append(buf, v, n) ==
    IF Len(buf) >= n THEN Append(Tail(buf), v) ELSE Append(buf, v)

InitHist ==
    /\ variant \in {"masterpiece", "redesigned"}
    /\ driver = "None"
    /\ sensor = NoContact
    /\ touch_pos = Return(None)
    /\ pc = "update"
    /\ loopParked
    /\ maxlen \in 1 .. MaxCapacity
    /\ history = [m \in Metrics |-> <<>>]
    /\ pushed = [m \in Metrics |-> <<>>]
    /\ barParked
    /\ extParked

\* the four appends of an update:
\*   cpu_history.append(stats['cpu_percent']) ...
\*   network_history.append(min(100, stats['net_speed_kb'] / 10))
UpdateHistories ==
    /\ pc = "update"
    /\ Len(pushed["cpu"]) < MaxPushes
    /\ \E k \in 1 .. SampleKinds :
         LET stats == Sample(k)
             val == [m \in Metrics |->
                       CASE m = "cpu"     -> stats.cpu_percent
                         [] m = "memory"  -> stats.memory_percent
                         [] m = "disk"    -> stats.disk_percent
                         [] m = "network" -> Min(100, stats.net_speed_kb \div 10)]
         IN  /\ history' = [m \in Metrics |-> deque_append(history[m], val[m], maxlen)]
             /\ pushed' = [m \in Metrics |-> Append(pushed[m], val[m])]
    /\ UNCHANGED <<variant, driver, pc, now, current_time, last_update,
                   animation_phase, sensor, touch_pos, frames, error, navVars,
                   maxlen, barVars, extVars>>

NextHist == UpdateHistories

SpecHist == InitHist /\ [][NextHist]_vars

\* the last n values of a sequence
LastN(seq, n) == SubSeq(seq, Len(seq) - n + 1, Len(seq))

\* C1: after any sequence of k pushes onto a history buffer of capacity N
\* the buffer is no longer than N and holds, oldest first, the most recent
\* min(k, N) pushed values in push order.
C1_HistoryIsLastPushes ==
    \A m \in Metrics :
        /\ Len(history[m]) <= maxlen
        /\ history[m] = LastN(pushed[m], Min(Len(pushed[m]), maxlen))

\* capacity 2: the pushes 10, 20, 30, 40 have left [30, 40]
C1_Witness ==
    /\ maxlen = 2
    /\ pushed["cpu"] = <<10, 20, 30, 40>>
    /\ history["cpu"] = <<30, 40>>

-----------------------------------------------------------------------------
(* Usage bar fill colour: SpecBar *)

\* USBDrive.used_percent, as whole percents
PercentValues == 0 .. 100

\* the screens that draw a usage bar for a drive
BarScreens == {"overview", "drives"}

\* masterpiece drives screen with inclusive thresholds
bar_color_masterpiece_drives_inclusive(p) ==
    IF p > 0
    THEN IF p >= 90 THEN "error" ELSE IF p >= 75 THEN "warning" ELSE "info"
    ELSE "none"

\* masterpiece, draw_overview_screen: the fill is drawn for used_percent > 0
\* in STATUS_ERROR, STATUS_WARNING or GRADIENT_INFO[1]
bar_color_masterpiece_overview(p) ==
    IF p > 0
    THEN IF p > 90 THEN "error" ELSE IF p > 75 THEN "warning" ELSE "info"
    ELSE "none"

\* masterpiece, draw_drives_screen
bar_color_masterpiece_drives(p) ==
    IF p > 0
    THEN IF p > 90 THEN "error" ELSE IF p > 75 THEN "warning" ELSE "info"
    ELSE "none"

\* redesigned, draw_overview_screen: COLOR_ERROR, COLOR_WARNING or COLOR_INFO
bar_color_redesigned_overview(p) ==
    IF p > 0
    THEN IF p > 90 THEN "error" ELSE IF p > 75 THEN "warning" ELSE "info"
    ELSE "none"

\* redesigned, draw_drives_screen
bar_color_redesigned_drives(p) ==
    IF p > 0
    THEN IF p > 90 THEN "error" ELSE IF p > 75 THEN "warning" ELSE "info"
    ELSE "none"

\* new-dashboard draws no usage bar
InitBar ==
    /\ variant \in {"masterpiece", "redesigned"}
    /\ driver = "None"
    /\ sensor = NoContact
    /\ touch_pos = Return(None)
    /\ pc = "draw"
    /\ loopParked
    /\ histParked
    /\ used_percent \in PercentValues
    /\ bar = <<>>
    /\ extParked

\* the usage bar of one drive, as each screen of the variant draws it
DrawUsageBars ==
    /\ pc = "draw"
    /\ bar' = IF variant = "masterpiece"
              THEN [overview |-> bar_color_masterpiece_overview(used_percent),
                    drives   |-> bar_color_masterpiece_drives(used_percent)]
              ELSE [overview |-> bar_color_redesigned_overview(used_percent),
                    drives   |-> bar_color_redesigned_drives(used_percent)]
    /\ pc' = "drawn"
    /\ UNCHANGED <<variant, driver, now, current_time, last_update,
                   animation_phase, sensor, touch_pos, frames, error, navVars,
                   histVars, used_percent, extVars>>

NextBar == DrawUsageBars

SpecBar == InitBar /\ [][NextBar]_vars

\* C10 as claimed: a drawn fill is in the error tier when used_percent >= 90,
\* in the warning tier when 75 <= used_percent < 90 and in the normal tier
\* otherwise (90 renders error, 75 renders warning), on every screen.
C10_TiersInclusive ==
    pc = "drawn"
        => \A sc \in BarScreens :
             bar[sc] # "none"
                => bar[sc] = IF used_percent >= 90 THEN "error"
                             ELSE IF used_percent >= 75 THEN "warning"
                             ELSE "info"

\* C10 amended: a fill is drawn for every used_percent > 0 and is in the
\* error tier when used_percent > 90, in the warning tier when
\* 75 < used_percent <= 90 and in the normal tier otherwise (92 error, 80
\* warning, 50 normal; 90 renders warning and 75 normal), identically on
\* every screen that draws a usage bar.
C10_TiersExclusive ==
    pc = "drawn"
        => \A sc \in BarScreens :
             /\ used_percent > 0 => bar[sc] # "none"
             /\ bar[sc] # "none"
                  => bar[sc] = IF used_percent > 90 THEN "error"
                               ELSE IF used_percent > 75 THEN "warning"
                               ELSE "info"

\* a drive exactly 90 percent full was drawn in the warning tier on both
\* screens
C10_Witness ==
    /\ pc = "drawn"
    /\ used_percent = 90
    /\ bar = [overview |-> "warning", drives |-> "warning"]

-----------------------------------------------------------------------------
(* Circular progress indicator: draw_circular_progress (masterpiece)       *)
(*                                                                         *)
(* The percentages the overview and stats screens pass are psutil's        *)
(* one-decimal floats (and min(100, net_speed_kb / 10)); percent is kept   *)
(* in tenths of a percent, so 25 % is 250.                                 *)

PercentTenths == 0 .. 1000

\* the record of one draw.arc(bbox, start, end, ...) call, angles in degrees
Arc(start, end, ring) == [start |-> start, end |-> end, ring |-> ring]

\* angle = int(360 * percent / 100), percent in tenths
progress_angle(p) == Trunc(360 * p, 1000)

draw_circular_progress_noguard(p) ==
    <<Arc(0, 360, "background"), Arc(-90, -90 + progress_angle(p), "progress")>>

\* draw.arc(..., 0, 360, fill=bg_color); if percent > 0: draw.arc(..., -90,
\* -90 + angle, fill=color)
draw_circular_progress(p) ==
    IF p > 0
    THEN <<Arc(0, 360, "background"), Arc(-90, -90 + progress_angle(p), "progress")>>
    ELSE <<Arc(0, 360, "background")>>

loopIdle ==
    /\ driver = "None"
    /\ sensor = NoContact
    /\ touch_pos = Return(None)
    /\ loopParked

InitGauge ==
    /\ variant = "masterpiece"
    /\ pc = "draw"
    /\ loopIdle
    /\ histParked
    /\ barParked
    /\ percent \in PercentTenths
    /\ arcs = <<>>
    /\ chartParked
    /\ composeParked
    /\ animParked
    /\ lifeParked
    /\ netParked
    /\ paceParked

\* one call draw_circular_progress(draw, cx, cy, radius, percent, ...)
DrawCircularProgress ==
    /\ pc = "draw"
    /\ arcs' = draw_circular_progress(percent)
    /\ pc' = "drawn"
    /\ UNCHANGED <<variant, driver, now, current_time, last_update,
                   animation_phase, sensor, touch_pos, frames, error, navVars,
                   histVars, barVars, percent, chartVars, composeVars,
                   animVars, lifeVars, netVars, paceVars>>

NextGauge == DrawCircularProgress

SpecGauge == InitGauge /\ [][NextGauge]_vars

\* the progress arcs among the draw.arc calls made
ProgressArcs == {i \in DOMAIN arcs : arcs[i].ring = "progress"}

\* C11 as claimed: the full background ring is always drawn, and for
\* percent > 0 one foreground arc starts at -90 degrees and sweeps clockwise
\* by exactly 360*percent/100 degrees; at percent = 0 there is none.
C11_SweepExact ==
    pc = "drawn"
        => /\ arcs[1] = Arc(0, 360, "background")
           /\ percent = 0 => ProgressArcs = {}
           /\ percent > 0
                => /\ ProgressArcs = {2}
                   /\ arcs[2].start = -90
                   /\ 1000 * (arcs[2].end - arcs[2].start) = 360 * percent

\* C11 amended: the full background ring is always drawn first, and for
\* percent > 0 one foreground arc starts at -90 degrees and sweeps clockwise
\* by 360*percent/100 degrees truncated to whole degrees (exactly 90 degrees
\* at percent = 25 and exactly 360 at percent = 100, but 3 degrees at
\* percent = 1); at percent = 0 no foreground arc is drawn.
C11_SweepTruncated ==
    pc = "drawn"
        => /\ arcs[1] = Arc(0, 360, "background")
           /\ percent = 0 => ProgressArcs = {}
           /\ percent > 0
                => /\ ProgressArcs = {2}
                   /\ arcs[2].start = -90
                   /\ LET sweep == arcs[2].end - arcs[2].start
                      IN  /\ 1000 * sweep <= 360 * percent
                          /\ 360 * percent < 1000 * (sweep + 1)
                   /\ percent = 250 => arcs[2].end = 0
                   /\ percent = 1000 => arcs[2].end = 270

\* the indicator of 25 percent was drawn: the ring, then the arc from the
\* top to the 3 o'clock position
C11_Witness ==
    /\ pc = "drawn"
    /\ percent = 250
    /\ arcs = <<Arc(0, 360, "background"), Arc(-90, 0, "progress")>>

-----------------------------------------------------------------------------
(* Sparkline and line chart: draw_sparkline (masterpiece), draw_chart      *)
(* (new, redesigned)                                                       *)
(*                                                                         *)
(* Coordinates are kept as exact fractions num/den: masterpiece and        *)
(* redesigned compute them as floats (step = width / (len(data) - 1)),     *)
(* new-dashboard as integers (//, int()).                                  *)

\* most values in the buffer handed to the chart
MaxPoints == 4

\* history values, in percent
ChartValues == {0, 50, 100}

Frac(n, d) == [num |-> n, den |-> d]

Point(px, py) == [x |-> px, y |-> py]

\* the rectangle of the CPU chart, as each overview screen passes it
ChartBox ==
    CASE variant = "masterpiece" -> [x |-> 70, y |-> 67, width |-> 80, height |-> 40]
      [] variant = "new"         -> [x |-> 5, y |-> 50, width |-> 75, height |-> 40]
      [] variant = "redesigned"  -> [x |-> 5, y |-> 42, width |-> 150, height |-> 38]

\* what a chart call did: whether it returned or raised, whether it drew
\* the chart's border and title, the points it computed and the number of
\* draw.line segments of the data line
Drawn(border, points) ==
    [kind |-> "return", border |-> border, points |-> points,
     segments |-> IF points = <<>> THEN 0 ELSE Len(points) - 1]

ZeroDivisionError(border) ==
    [kind |-> "raise", border |-> border, points |-> <<>>, segments |-> 0]

\* for i, val in enumerate(data): px = x + i * step
\*                                py = y + height - (val / 100.0 * height)
sparkline_points(b, d) ==
    [k \in 1 .. Len(d) |->
        Point(Frac(b.x * (Len(d) - 1) + (k - 1) * b.width, Len(d) - 1),
              Frac(100 * (b.y + b.height) - d[k] * b.height, 100))]

draw_sparkline_noguard(b, d) ==
    IF Len(d) - 1 = 0
    THEN ZeroDivisionError(FALSE)
    ELSE Drawn(FALSE, sparkline_points(b, d))

\* if len(data) < 2: return; step = width / (len(data) - 1); ...
draw_sparkline(b, d) ==
    IF Len(d) < 2
    THEN Drawn(FALSE, <<>>)
    ELSE IF Len(d) - 1 = 0
    THEN ZeroDivisionError(FALSE)
    ELSE Drawn(FALSE, sparkline_points(b, d))

\* redesigned: rectangle, grid lines and title first, then as draw_sparkline
draw_chart_redesigned(b, d) ==
    IF Len(d) < 2
    THEN Drawn(TRUE, <<>>)
    ELSE IF Len(d) - 1 = 0
    THEN ZeroDivisionError(TRUE)
    ELSE Drawn(TRUE, sparkline_points(b, d))

SeqMax(d) == CHOOSE v \in {d[k] : k \in DOMAIN d} : \A k \in DOMAIN d : d[k] <= v
SeqMin(d) == CHOOSE v \in {d[k] : k \in DOMAIN d} : \A k \in DOMAIN d : d[k] >= v

\* new: rectangle and title first; the values are scaled to the buffer's own
\* minimum and maximum (max_val = min_val + 1 when they are equal)
\*   chart_x = x + (i * width) // len(data)
\*   chart_y = y + height - int((value - min_val) * height / (max_val - min_val))
draw_chart_new(b, d) ==
    IF Len(d) < 2
    THEN Drawn(TRUE, <<>>)
    ELSE LET min_val == SeqMin(d)
             max_val == IF SeqMax(d) = min_val THEN min_val + 1 ELSE SeqMax(d)
         IN  Drawn(TRUE,
                   [k \in 1 .. Len(d) |->
                      Point(Frac(b.x + ((k - 1) * b.width) \div Len(d), 1),
                            Frac(b.y + b.height
                                   - Trunc((d[k] - min_val) * b.height,
                                           max_val - min_val), 1))])

draw_history_chart(b, d) ==
    CASE variant = "masterpiece" -> draw_sparkline(b, d)
      [] variant = "new"         -> draw_chart_new(b, d)
      [] variant = "redesigned"  -> draw_chart_redesigned(b, d)

\* every buffer content of at most n values
SeqsUpTo(S, n) == UNION {[1 .. k -> S] : k \in 0 .. n}

InitChart ==
    /\ variant \in Variants
    /\ pc = "draw"
    /\ loopIdle
    /\ histParked
    /\ barParked
    /\ gaugeParked
    /\ data \in SeqsUpTo(ChartValues, MaxPoints)
    /\ chart = <<>>
    /\ composeParked
    /\ animParked
    /\ lifeParked
    /\ netParked
    /\ paceParked

\* one call of the variant's chart routine on a history buffer
DrawHistoryChart ==
    /\ pc = "draw"
    /\ chart' = draw_history_chart(ChartBox, data)
    /\ pc' = "drawn"
    /\ UNCHANGED <<variant, driver, now, current_time, last_update,
                   animation_phase, sensor, touch_pos, frames, error, navVars,
                   histVars, barVars, gaugeVars, data, composeVars,
                   animVars, lifeVars, netVars, paceVars>>

NextChart == DrawHistoryChart

SpecChart == InitChart /\ [][NextChart]_vars

\* C12: with fewer than 2 values in the buffer the chart routine of every
\* variant computes no point and draws no line segment, and it returns
\* normally (no ZeroDivisionError or other exception), so the caller goes on
\* to compose the rest of the frame.
C12_ShortBufferDrawsNoLine ==
    (pc = "drawn" /\ Len(data) < 2)
        => /\ chart.kind = "return"
           /\ chart.points = <<>>
           /\ chart.segments = 0

\* the chart of a buffer holding a single sample was drawn
C12_Witness ==
    /\ pc = "drawn"
    /\ Len(data) = 1
    /\ chart.kind = "return"
    /\ chart.segments = 0

\* C13 as claimed: for n >= 2 values, point i (from 0) is at
\* x + i*w/(n-1) in every variant, so the first point is on the left edge
\* of the rectangle and the last on its right edge.
C13_PointsSpanRectangle ==
    (pc = "drawn" /\ Len(data) >= 2)
        => /\ Len(chart.points) = Len(data)
           /\ \A k \in 1 .. Len(data) :
                chart.points[k].x.num * (Len(data) - 1)
                    = chart.points[k].x.den
                        * (ChartBox.x * (Len(data) - 1) + (k - 1) * ChartBox.width)

-----------------------------------------------------------------------------
(* Frame composition: draw_overview_screen, draw_drives_screen and         *)
(* draw_stats_screen (masterpiece), composed twice from the same inputs    *)
(* while the operating system's answers may change in between.             *)

\* the wall clock's minutes run from 0 to MaxMinute
MaxMinute == 1

FsTypes == {"EXT4", "VFAT"}

\* datetime.now(), the output of `smbstatus -S` (whether it names the
\* mounted drives) and of `findmnt -n -o FSTYPE`
SystemStates ==
    [minute : 0 .. MaxMinute, exported : BOOLEAN, fstype : FsTypes]

\* USBDrive.is_shared(): self.name in the output of smbstatus -S
is_shared(sys) == sys.exported

\* USBDrive.get_filesystem_type()
get_filesystem_type(sys) == sys.fstype

\* the data lines of the four sparklines
Sparklines(hist) == [m \in Metrics |-> draw_sparkline(ChartBox, hist[m]).points]

\* header (status dot and gradient follow phase; time_str and date_str are
\* datetime.now()), the four metric cards with their sparklines, and the
\* first drive with its status indicator
draw_overview_screen(stats, hist, n, phase, sys) ==
    [screen |-> "overview",
     phase |-> phase,
     time_str |-> sys.minute,
     stats |-> stats,
     sparklines |-> Sparklines(hist),
     drive_count |-> n,
     status |-> IF n > 0 THEN <<is_shared(sys)>> ELSE <<>>]

\* a card for each of the first three drives: status indicator and badge
\* (drive.is_shared()), filesystem (drive.get_filesystem_type()), usage
draw_drives_screen(n, phase, sys) ==
    [screen |-> "drives",
     cards |-> [i \in 1 .. Min(n, 3) |->
                  [is_shared |-> is_shared(sys), fs_type |-> get_filesystem_type(sys)]],
     more |-> Max(n - 3, 0)]

draw_stats_screen(stats, phase) ==
    [screen |-> "stats", stats |-> stats]

\* main(): if current_screen == 0: draw_overview_screen(...)
\*         elif current_screen == 1: draw_drives_screen(...)
\*         else: draw_stats_screen(...)
compose_frame(screen, stats, hist, n, phase, sys) ==
    IF screen = 0 THEN draw_overview_screen(stats, hist, n, phase, sys)
    ELSE IF screen = 1 THEN draw_drives_screen(n, phase, sys)
    ELSE draw_stats_screen(stats, phase)

InitCompose ==
    /\ variant = "masterpiece"
    /\ driver = "None"
    /\ pc = "compose"
    /\ now = StartTime
    /\ current_time = 0
    /\ last_update = 0
    /\ current_screen \in 0 .. max_screens - 1
    /\ last_touch_time = 0
    /\ animation_phase \in {1, 2}
    /\ sensor = NoContact
    /\ touch_pos = Return(None)
    /\ fired = NoAction
    /\ accepted = 0
    /\ frames = 0
    /\ error = "none"
    /\ maxlen = MaxCapacity
    /\ \E h \in {<<>>, <<0, 50>>} :
         /\ history = [m \in Metrics |-> h]
         /\ pushed = [m \in Metrics |-> h]
    /\ barParked
    /\ gaugeParked
    /\ chartParked
    /\ sample \in 1 .. SampleKinds
    /\ n_drives \in 0 .. MaxDrives
    /\ system \in SystemStates
    /\ composed = <<>>
    /\ animParked
    /\ lifeParked
    /\ netParked
    /\ paceParked

\* everything the composition and the operating system leave alone
composeFixed == <<variant, driver, pc, now, current_time, last_update,
                  animation_phase, sensor, touch_pos, frames, error, navVars,
                  histVars, barVars, gaugeVars, chartVars, animVars, lifeVars, netVars, paceVars>>

\* one composition of the current screen from stats, histories, drives,
\* current_screen and animation_phase, none of which changes
ComposeFrame ==
    /\ pc = "compose"
    /\ Len(composed) < 2
    /\ composed' = Append(composed,
                          compose_frame(current_screen, Sample(sample), history,
                                        n_drives, animation_phase, system))
    /\ UNCHANGED <<sample, n_drives, system, composeFixed>>

\* the wall clock passes a minute
ClockAdvance ==
    /\ pc = "compose"
    /\ system.minute < MaxMinute
    /\ system' = [system EXCEPT !.minute = @ + 1]
    /\ UNCHANGED <<sample, n_drives, composed, composeFixed>>

\* the Samba shares of the mounted drives are added or removed
ShareChange ==
    /\ pc = "compose"
    /\ system' = [system EXCEPT !.exported = ~@]
    /\ UNCHANGED <<sample, n_drives, composed, composeFixed>>

\* the drives are remounted with another filesystem
Remount ==
    /\ pc = "compose"
    /\ \E t \in FsTypes \ {system.fstype} : system' = [system EXCEPT !.fstype = t]
    /\ UNCHANGED <<sample, n_drives, composed, composeFixed>>

NextCompose == ComposeFrame \/ ClockAdvance \/ ShareChange \/ Remount

SpecCompose == InitCompose /\ [][NextCompose]_vars

\* C14 as claimed: two frames composed from the same metric sample, the
\* same four histories, the same drive list, the same current_screen and
\* the same animation phase are identical, whatever the wall clock and the
\* operating system say at the time of drawing.
C14_ComposeDeterministic ==
    Len(composed) = 2 => composed[1] = composed[2]

-----------------------------------------------------------------------------
(* Boot animation parameters: draw_boot_animation (masterpiece)            *)
(*                                                                         *)
(* t = frame / frames and everything derived from it are kept as exact     *)
(* fractions; on the frames 0 .. 89 the float comparisons t < 0.4,         *)
(* t < 0.7 and t > 0.5 come out as the exact ones do.                      *)

\* draw_boot_animation: frames = 90
boot_frames == 90

FracEq(a, b) == a.num * b.den = b.num * a.den
\* a <= b, for positive denominators
FracLeq(a, b) == a.num * b.den <= b.num * a.den

\* the parameters of frame f:
\*   t = frame / frames
\*   if t < 0.4:   phase_t = t / 0.4
\*                 orbit_radius = 80 * (1 - phase_t); blob_size = 8 * phase_t
\*   elif t < 0.7: phase_t = (t - 0.4) / 0.3
\*                 orbit_radius = 25; blob_size = 8 + 8 * phase_t
\*   else:         phase_t = (t - 0.7) / 0.3
\*                 orbit_radius = 25 * (1 - phase_t * 0.8)
\*                 blob_size = 16 + 30 * phase_t
\*   if t > 0.5:   text_alpha = (t - 0.5) / 0.5, the label is drawn
\*   explosion = 0 in the first two phases, phase_t in the third
\*   if t > 0.6:   tendril_alpha = (t - 0.6) / 0.4, and between each pair of
\*                 adjacent blobs one draw.line per width w in
\*                 range(int(8 * tendril_alpha), 0, -2)
boot_parameters(f) ==
    LET F == boot_frames
        \* int(8 * tendril_alpha): the float product equals the exact one up
        \* to its integer part except at frame 63 of 90, where t - 0.6 is
        \* 0.09999999999999998 and the product 1.9999999999999996
        exact == Trunc(8 * (10 * f - 6 * F), 4 * F)
        widest == IF 10 * f = 7 * F THEN exact - 1 ELSE exact
        motion ==
            IF 10 * f < 4 * F
            THEN [orbit_radius |-> Frac(80 * (4 * F - 10 * f), 4 * F),
                  blob_size |-> Frac(8 * 10 * f, 4 * F)]
            ELSE IF 10 * f < 7 * F
            THEN [orbit_radius |-> Frac(25, 1),
                  blob_size |-> Frac(8 * 3 * F + 8 * (10 * f - 4 * F), 3 * F)]
            ELSE [orbit_radius |-> Frac(25 * (30 * F - 8 * (10 * f - 7 * F)), 30 * F),
                  blob_size |-> Frac(16 * 3 * F + 30 * (10 * f - 7 * F), 3 * F)]
    IN  [t |-> Frac(f, F),
         orbit_radius |-> motion.orbit_radius,
         blob_size |-> motion.blob_size,
         label |-> 2 * f > F,
         text_alpha |-> IF 2 * f > F THEN Frac(2 * f - F, F) ELSE Frac(0, 1),
         explosion |-> IF 10 * f < 7 * F
                       THEN Frac(0, 1) ELSE Frac(10 * f - 7 * F, 3 * F),
         tendril_alpha |-> IF 10 * f > 6 * F
                           THEN Frac(10 * f - 6 * F, 4 * F) ELSE Frac(0, 1),
         tendril_widths |-> IF 10 * f > 6 * F
                            THEN {w \in 1 .. widest : (widest - w) % 2 = 0}
                            ELSE {}]

\* for frame in range(frames)
BootFrames == 0 .. boot_frames - 1

InitBootFrame ==
    /\ variant = "masterpiece"
    /\ pc = "render"
    /\ loopIdle
    /\ histParked
    /\ barParked
    /\ gaugeParked
    /\ chartParked
    /\ composeParked
    /\ frame \in BootFrames
    /\ boot = <<>>
    /\ lifeParked
    /\ netParked
    /\ paceParked

\* the body of the frame loop up to display.image(image), for one frame
RenderBootFrame ==
    /\ pc = "render"
    /\ boot' = boot_parameters(frame)
    /\ pc' = "rendered"
    /\ UNCHANGED <<variant, driver, now, current_time, last_update,
                   animation_phase, sensor, touch_pos, frames, error, navVars,
                   histVars, barVars, gaugeVars, chartVars, composeVars, frame,
                   lifeVars, netVars, paceVars>>

\* the loop goes on to its next frame
AdvanceBootFrame ==
    /\ pc = "rendered"
    /\ frame + 1 \in BootFrames
    /\ frame' = frame + 1
    /\ pc' = "render"
    /\ UNCHANGED <<variant, driver, now, current_time, last_update,
                   animation_phase, sensor, touch_pos, frames, error, navVars,
                   histVars, barVars, gaugeVars, chartVars, composeVars, boot,
                   lifeVars, netVars, paceVars>>

NextBootFrame == RenderBootFrame \/ AdvanceBootFrame

SpecBootFrame == InitBootFrame /\ [][NextBootFrame]_vars

\* C15 as claimed: the first frame (t = 0) has every blob at the maximum
\* orbit radius 80 with base size 0; the last frame of the sequence has
\* t = 1, the label fully opaque (alpha 1) and the smallest orbit radius of
\* the whole sequence.
C15_BootEndpoints ==
    pc = "rendered"
        => /\ frame = 0
                => /\ FracEq(boot.t, Frac(0, 1))
                   /\ FracEq(boot.orbit_radius, Frac(80, 1))
                   /\ FracEq(boot.blob_size, Frac(0, 1))
           /\ frame = boot_frames - 1
                => /\ FracEq(boot.t, Frac(1, 1))
                   /\ boot.label
                   /\ FracEq(boot.text_alpha, Frac(1, 1))
                   /\ \A f \in BootFrames :
                        FracLeq(boot.orbit_radius, boot_parameters(f).orbit_radius)

-----------------------------------------------------------------------------
(* Process life cycle: main() from the boot animation through the loop to  *)
(* the shutdown on a termination signal (SpecLife)                         *)
(*                                                                         *)
(* masterpiece plays draw_boot_animation before its try block and          *)
(* draw_shutdown_animation in `except KeyboardInterrupt`; redesigned has   *)
(* no animations and clears the display in `except KeyboardInterrupt`;     *)
(* new-dashboard has neither animation nor handler.  No file installs a    *)
(* signal handler, so SIGINT raises KeyboardInterrupt at the point the     *)
(* program has reached and SIGTERM ends the process at once.               *)
(* The clock advances only across the sleep here.                          *)

\* most termination signals delivered in a run
MaxSignals == 2

\* draw_shutdown_animation: frames = 60
shutdown_frames == 60

BG_DARK == <<10, 10, 15>>
COLOR_BG == <<0, 0, 0>>

\* Image.new("RGB", (w, h), fill), and what has been drawn on it
Image(fill, drawn, w, h) == [fill |-> fill, drawn |-> drawn, width |-> w, height |-> h]

\* image.resize((w, h), ...)
resize(img, w, h) == [img EXCEPT !.width = w, !.height = h]

NoImage == Image(<<>>, "none", 0, 0)

\* the background the variant's frames are created with
Background ==
    CASE variant = "masterpiece" -> BG_DARK
      [] variant = "new"         -> <<0, 0, 0>>
      [] variant = "redesigned"  -> COLOR_BG

\* per iteration: touch polls, get_usb_drives() calls, get_system_stats()
\* calls that returned, appends to each history, dashboard frames displayed
IdleIteration ==
    [polls |-> 0, enumerations |-> 0, samples |-> 0,
     pushes |-> [m \in Metrics |-> 0], shown |-> 0]

LoopPcs == {"top", "touch", "update", "sleep"}
Killed == {"killed in boot", "killed in loop", "killed in shutdown"}

\* where in main() the program is
Phase ==
    CASE pc = "boot" -> "boot"
      [] pc \in LoopPcs -> "loop"
      [] pc = "shutdown" -> "shutdown"
      [] OTHER -> "halted"

\* animated frames of the variant's shutdown (redesigned only clears)
ShutdownFrames == IF variant = "masterpiece" THEN shutdown_frames ELSE 0

boot_loop_ends_early(f) == f >= 1

\* for frame in range(frames): the loop is over
boot_loop_ends(f) == f >= boot_frames

shutdown_loop_ends_early(f) == f >= 1

shutdown_loop_ends(f) == f >= ShutdownFrames

InitLife ==
    /\ variant \in Variants
    /\ driver \in {"None", IF variant = "new" THEN "xpt2046" ELSE "XPT2046"}
    /\ pc = IF variant = "masterpiece" THEN "boot" ELSE "top"
    /\ now = StartTime
    /\ current_time = 0
    /\ last_update = 0
    /\ current_screen = 0
    /\ last_touch_time = 0
    /\ animation_phase = 0
    /\ sensor = NoContact
    /\ touch_pos = Return(None)
    /\ fired = NoAction
    /\ accepted = 0
    /\ frames = 0
    /\ error = "none"
    /\ histParked
    /\ barParked
    /\ gaugeParked
    /\ chartParked
    /\ composeParked
    /\ animParked
    /\ netParked
    /\ paceParked
    /\ activity = IdleIteration
    /\ boot_shown = 0
    /\ shutdown_shown = 0
    /\ last_image = NoImage
    /\ signals = 0

\* what no step of the life cycle changes
lifeFixed == <<variant, driver, sensor, touch_pos, histVars, barVars, gaugeVars,
               chartVars, composeVars, netVars, paceVars>>

\* one pass of draw_boot_animation's frame loop: render at 160 x 120,
\* resize to the display, display.image(image), save, sleep
PlayBootFrame ==
    /\ pc = "boot"
    /\ ~boot_loop_ends(frame)
    /\ boot' = boot_parameters(frame)
    /\ last_image' = resize(Image(BG_DARK, "boot", 160, 120), WIDTH, HEIGHT)
    /\ boot_shown' = boot_shown + 1
    /\ frame' = frame + 1
    /\ UNCHANGED <<pc, now, current_time, last_update, animation_phase, frames,
                   error, navVars, activity, shutdown_shown, signals, lifeFixed>>

\* draw_boot_animation returns; last_update = 0; the try block is entered
BootComplete ==
    /\ pc = "boot"
    /\ boot_loop_ends(frame)
    /\ pc' = "top"
    /\ frame' = 0
    /\ UNCHANGED <<boot, now, current_time, last_update, animation_phase, frames,
                   error, navVars, lifeVars, lifeFixed>>

\* while True: current_time = time.time(); animation_phase += 0.1
BeginIteration ==
    /\ pc = "top"
    /\ current_time' = now
    /\ animation_phase' = IF variant = "masterpiece"
                          THEN animation_phase + 1 ELSE animation_phase
    /\ activity' = IdleIteration
    /\ pc' = "touch"
    /\ UNCHANGED <<now, last_update, frames, error, navVars, animVars, boot_shown,
                   shutdown_shown, last_image, signals, lifeFixed>>

\* if touch: touch_pos = map_touch(touch, driver)
\*           if touch_pos: handle_touch(x, y, get_usb_drives())
TouchStep ==
    /\ pc = "touch"
    /\ IF driver = "None"
       THEN /\ pc' = "update"
            /\ UNCHANGED <<activity, error, navVars>>
       ELSE \E s \in {NoContact, SensorReport(TRUE, 2600, 560, "none")} :
              LET r == map_touch(s, driver)
                  polled == [activity EXCEPT !.polls = @ + 1]
              IN  IF r.val = None
                  THEN /\ activity' = polled
                       /\ pc' = "update"
                       /\ UNCHANGED <<error, navVars>>
                  ELSE \E f \in {"none"} \cup DriveReads, n \in 0 .. MaxDrives :
                         LET d == get_usb_drives(f, n)
                         IN  IF d.kind = "raise"
                             THEN /\ activity' = polled
                                  /\ pc' = "crashed"
                                  /\ error' = f
                                  /\ UNCHANGED navVars
                             ELSE /\ activity' = [polled EXCEPT !.enumerations = @ + 1]
                                  /\ handle_touch(r.val[1], r.val[2], d.val)
                                  /\ pc' = "update"
                                  /\ UNCHANGED error
    /\ UNCHANGED <<now, current_time, last_update, animation_phase, frames,
                   animVars, boot_shown, shutdown_shown, last_image, signals,
                   lifeFixed>>

\* the appends made once get_system_stats, get_version_info and
\* get_usb_drives have all returned: four in main() (masterpiece,
\* redesigned), or already made inside get_system_stats (new)
AllPushed == [m \in Metrics |-> 1]

\* the appends made by the time read f raises: new-dashboard's
\* get_system_stats appends each value right after reading it
PushedBefore(f) ==
    IF variant = "new"
    THEN CASE f = "psutil.cpu_percent"    -> [m \in Metrics |-> 0]
           [] f = "psutil.virtual_memory" -> [m \in Metrics |-> IF m = "cpu" THEN 1 ELSE 0]
           [] f = "psutil.disk_usage"     -> [m \in Metrics |->
                                                IF m \in {"cpu", "memory"} THEN 1 ELSE 0]
           [] OTHER                       -> AllPushed
    ELSE [m \in Metrics |-> 0]

\* if current_time - last_update >= UPDATE_INTERVAL:
\*     stats = get_system_stats(); version, is_latest = get_version_info()
\*     drives = get_usb_drives(); the four appends; draw the current screen
\*     display.image(image); last_update = current_time
UpdateStep ==
    /\ pc = "update"
    /\ IF current_time - last_update >= UPDATE_INTERVAL
       THEN \E f \in {"none"} \cup StatsReads \cup VersionReads \cup DriveReads,
               n \in 0 .. MaxDrives :
              LET stats == get_system_stats(f)
                  version == get_version_info(f)
                  found == get_usb_drives(f, n)
              IN  IF stats.kind = "raise"
                  THEN /\ activity' = [activity EXCEPT !.pushes = PushedBefore(f)]
                       /\ pc' = "crashed"
                       /\ error' = f
                       /\ UNCHANGED <<frames, last_update, last_image>>
                  ELSE IF version.kind = "raise" \/ found.kind = "raise"
                  THEN /\ activity' = [activity EXCEPT !.samples = @ + 1,
                                                       !.pushes = PushedBefore(f)]
                       /\ pc' = "crashed"
                       /\ error' = f
                       /\ UNCHANGED <<frames, last_update, last_image>>
                  ELSE /\ activity' = [activity EXCEPT !.samples = @ + 1,
                                                       !.enumerations = @ + 1,
                                                       !.pushes = AllPushed,
                                                       !.shown = @ + 1]
                       /\ frames' = frames + 1
                       /\ last_image' = Image(Background, "dashboard", WIDTH, HEIGHT)
                       /\ last_update' = current_time
                       /\ pc' = "sleep"
                       /\ UNCHANGED error
       ELSE /\ pc' = "sleep"
            /\ UNCHANGED <<activity, frames, last_update, last_image, error>>
    /\ UNCHANGED <<now, current_time, animation_phase, navVars, animVars,
                   boot_shown, shutdown_shown, signals, lifeFixed>>

\* time.sleep(0.05) (0.1 in new-dashboard)
SleepStep ==
    /\ pc = "sleep"
    /\ now + SleepTicks <= MaxTime
    /\ now' = now + SleepTicks
    /\ pc' = "top"
    /\ UNCHANGED <<current_time, last_update, animation_phase, frames, error,
                   navVars, animVars, lifeVars, lifeFixed>>

\* the iteration took longer than the sleep
Oversleep ==
    /\ pc = "sleep"
    /\ now < MaxTime
    /\ now' = now + 1
    /\ UNCHANGED <<pc, current_time, last_update, animation_phase, frames, error,
                   navVars, animVars, lifeVars, lifeFixed>>

\* one pass of draw_shutdown_animation's frame loop
PlayShutdownFrame ==
    /\ pc = "shutdown"
    /\ ~shutdown_loop_ends(frame)
    /\ last_image' = resize(Image(BG_DARK, "shutdown", 160, 120), WIDTH, HEIGHT)
    /\ shutdown_shown' = shutdown_shown + 1
    /\ frame' = frame + 1
    /\ UNCHANGED <<pc, boot, now, current_time, last_update, animation_phase,
                   frames, error, navVars, activity, boot_shown, signals, lifeFixed>>

\* after the frame loop (masterpiece) or directly in the handler
\* (redesigned): image = Image.new("RGB", (WIDTH, HEIGHT), ...);
\* display.image(image); main() returns
ClearDisplay ==
    /\ pc = "shutdown"
    /\ shutdown_loop_ends(frame)
    /\ last_image' = Image(IF variant = "masterpiece" THEN BG_DARK ELSE <<0, 0, 0>>,
                           "nothing", WIDTH, HEIGHT)
    /\ pc' = "exited"
    /\ UNCHANGED <<now, current_time, last_update, animation_phase, frames, error,
                   navVars, animVars, activity, boot_shown, shutdown_shown,
                   signals, lifeFixed>>

\* the program is inside a try block with a bare `except:` for part of the
\* step it is at: image.save in both animations and in masterpiece's
\* update, the sensor read in map_touch, the temperature and address reads
\* of get_system_stats, the reads of get_version_info
InBareExcept ==
    \/ pc \in {"boot", "shutdown"} /\ variant = "masterpiece"
    \/ pc = "touch" /\ driver # "None"
    \/ pc = "update" /\ current_time - last_update >= UPDATE_INTERVAL

\* where a KeyboardInterrupt that no bare except catches takes the program:
\* masterpiece and redesigned catch it around the loop only
KeyboardInterrupt ==
    IF Phase = "loop" /\ variant # "new" THEN "shutdown"
    ELSE CASE Phase = "boot"     -> "killed in boot"
           [] Phase = "loop"     -> "killed in loop"
           [] Phase = "shutdown" -> "killed in shutdown"

\* SIGTERM: the default action ends the process where it is
Terminate ==
    CASE Phase = "boot"     -> "killed in boot"
      [] Phase = "loop"     -> "killed in loop"
      [] Phase = "shutdown" -> "killed in shutdown"

\* a termination signal arrives while the process runs
DeliverSignal ==
    /\ Phase # "halted"
    /\ signals < MaxSignals
    /\ signals' = signals + 1
    /\ \E sig \in {"SIGINT", "SIGTERM"}, caught \in BOOLEAN :
         /\ caught => sig = "SIGINT" /\ InBareExcept
         /\ IF caught
            THEN UNCHANGED <<pc, frame>>
            ELSE /\ pc' = IF sig = "SIGINT" THEN KeyboardInterrupt ELSE Terminate
                 /\ frame' = IF pc' = "shutdown" /\ pc # "shutdown" THEN 0 ELSE frame
    /\ UNCHANGED <<boot, now, current_time, last_update, animation_phase, frames,
                   error, navVars, activity, boot_shown, shutdown_shown,
                   last_image, lifeFixed>>

NextLife ==
    \/ PlayBootFrame \/ BootComplete
    \/ BeginIteration \/ TouchStep \/ UpdateStep \/ SleepStep \/ Oversleep
    \/ DeliverSignal
    \/ PlayShutdownFrame \/ ClearDisplay

SpecLife == InitLife /\ [][NextLife]_vars

\* the update test of the iteration: current_time - last_update >= UPDATE_INTERVAL
UpdateDue == current_time - last_update >= UPDATE_INTERVAL

\* C16: in masterpiece the main loop's first iteration begins only after
\* draw_boot_animation has handed all 90 frames to the display (until then
\* no iteration has polled, sampled, enumerated, pushed or shown anything),
\* and no step taken during the boot or the shutdown sequence polls the
\* touch sensor, samples metrics, enumerates drives, pushes to a history or
\* changes the navigation state.
C16_AnimationsBlockLoop ==
    /\ [](variant = "masterpiece"
            => /\ pc \in LoopPcs \cup {"shutdown", "exited", "crashed",
                                       "killed in loop", "killed in shutdown"}
                    => boot_shown = boot_frames
               /\ Phase = "boot"
                    => /\ activity = IdleIteration
                       /\ frames = 0
                       /\ current_time = 0)
    /\ [][(Phase \in {"boot", "shutdown"})
            => UNCHANGED <<activity, frames, last_update, current_screen,
                           last_touch_time, accepted, fired, histVars>>]_vars

\* masterpiece is half way through its shutdown sequence, after a boot
\* sequence of 90 frames and a loop that displayed a frame and changed screen
C16_Witness ==
    /\ variant = "masterpiece"
    /\ pc = "shutdown"
    /\ shutdown_shown = 30
    /\ boot_shown = boot_frames
    /\ frames >= 1
    /\ current_screen = 1

\* C17 as claimed: once the shutdown sequence has been triggered the
\* process halts only after all of the sequence's frames (60 in
\* masterpiece) were presented, whatever signals arrive meanwhile.
C17_ShutdownRunsToItsEnd ==
    pc \in {"exited", "killed in shutdown"} => shutdown_shown = ShutdownFrames

\* C18 as claimed: when the process has exited on a termination signal,
\* whether the signal came during the boot sequence, during an iteration or
\* during the sleep, the shutdown sequence has run before the exit.
C18_NoExitWithoutShutdown ==
    pc \notin {"killed in boot", "killed in loop"}

C20_UpdateGatedByInterval ==
    [][UpdateStep
         => /\ IF UpdateDue
               THEN /\ activity'.samples = 1
                    /\ activity'.enumerations >= 1
                    /\ activity'.pushes = AllPushed
                    /\ activity'.shown = 1
                    /\ frames' = frames + 1
               ELSE /\ activity'.samples = 0
                    /\ activity'.enumerations = 0
                    /\ activity'.pushes = IdleIteration.pushes
                    /\ activity'.shown = 0
                    /\ frames' = frames
            /\ frames' # frames => /\ current_time - last_update >= UPDATE_INTERVAL
                                   /\ last_update' = current_time]_vars

-----------------------------------------------------------------------------
(* Animation phase of the masterpiece main loop (under Spec)               *)

\* C21: in masterpiece animation_phase starts at 0, the step that begins a
\* loop iteration adds exactly one step of 0.1 to it, and no other step of
\* the iteration (touch handling, update and rendering, sleep) changes it:
\* it is stepped once per iteration, never decreased and never reset, so it
\* counts the iterations begun.
C21_PhaseStepsOncePerIteration ==
    /\ animation_phase = 0
    /\ [][variant = "masterpiece"
            => IF pc = "top"
               THEN animation_phase' = animation_phase + 1
               ELSE animation_phase' = animation_phase]_vars

\* masterpiece is in its third iteration, having rendered a frame in the
\* first and accepted a touch in one of them
C21_Witness ==
    /\ variant = "masterpiece"
    /\ animation_phase = 3
    /\ frames >= 1
    /\ accepted >= 1


-----------------------------------------------------------------------------
(* Network rate: SpecNet

   get_system_stats reads the cumulative byte counters of
   psutil.net_io_counters() once per update and a value derived from them
   is appended to network_history.  Bytes are counted exactly, time in
   ticks, and every rate is an exact fraction of KB/s.  Only the sum
   bytes_sent + bytes_recv enters the computations, so the two counters
   are one number. *)

\* most counter readings explored
MaxReads == 3

RECURSIVE GCD(_, _)
GCD(a, b) == IF b = 0 THEN a ELSE GCD(b, a % b)

Abs(n) == IF n < 0 THEN -n ELSE n

\* the fraction n / d in lowest terms, d > 0
Reduce(n, d) ==
    LET g == GCD(Abs(n), d)
    IN  IF g = 0 THEN Frac(0, 1) ELSE Frac(n \div g, d \div g)

\* bytes that can cross the interfaces between two updates: none,
\* 256 KiB, 1 MiB
NetTraffic == {0, 262144, 1048576}

\* net.bytes_sent + net.bytes_recv when the dashboard starts
NetAtStart == {0, 1048576}

\* time between two calls of get_system_stats: one update interval, or
\* two when an iteration was slow
NetElapsed == {UPDATE_INTERVAL, 2 * UPDATE_INTERVAL}

Reading(b, t) == [bytes |-> b, time |-> t]

\* (bytes / ticks-of-50ms) / 1024, in KB/s: the ticks are 1/20 s
KBps(bytes, ticks) == Reduce(bytes * 20, ticks * 1024)

\* min(100, stats['net_speed_kb'] / 10)
scale_net_speed(speed) ==
    LET tenth == Reduce(speed.num, speed.den * 10)
    IN  IF FracLeq(Frac(100, 1), tenth) THEN Frac(100, 1) ELSE tenth

\* masterpiece, redesigned: stats['net_speed_kb'] of a reading taken with
\* last_net = last (None on the first call)
\*   time_delta = time.time() - last_time
\*   if time_delta > 0: speed = (sent and recv differences) / time_delta / 1024
net_speed_kb(last, reading) ==
    IF last = None
    THEN Frac(0, 1)
    ELSE LET time_delta == reading.time - last.time
         IN  IF time_delta > 0
             THEN KBps(reading.bytes - last.bytes, time_delta)
             ELSE Frac(0, 1)

\* new-dashboard: the value get_system_stats appends to network_history
\*   if network_history:
\*       last_bytes = network_history[-1]
\*       bytes_per_sec = (current_bytes - last_bytes) / UPDATE_INTERVAL
\*       network_history.append(bytes_per_sec / 1024)
\*   else: network_history.append(0)
\* and 0 when psutil.net_io_counters() raised
network_sample_new(buf, outcome) ==
    IF outcome.kind = "raise" \/ buf = <<>>
    THEN Frac(0, 1)
    ELSE LET current_bytes == outcome.val
             last_bytes == buf[Len(buf)]
             \* UPDATE_INTERVAL seconds times 1024
             divisor == (UPDATE_INTERVAL * 1024) \div 20
         IN  Reduce(current_bytes * last_bytes.den - last_bytes.num,
                    last_bytes.den * divisor)

\* the outcomes of psutil.net_io_counters(); new-dashboard wraps the call
\* in try/except, the other two files read the counters unguarded
NetReads(total) ==
    IF variant = "new" THEN {Return(total), Raise} ELSE {Return(total)}

InitNet ==
    /\ variant \in Variants
    /\ loopIdle
    /\ pc = "update"
    /\ loopParked
    /\ maxlen \in 1 .. MaxCapacity
    /\ history = [m \in Metrics |-> <<>>]
    /\ pushed = [m \in Metrics |-> <<>>]
    /\ barParked
    /\ gaugeParked
    /\ chartParked
    /\ composeParked
    /\ animParked
    /\ lifeParked
    /\ net_io \in NetAtStart
    /\ last_net = None
    /\ net_reads = <<>>
    /\ paceParked

\* one update: traffic flows and time passes since the previous update,
\* get_system_stats reads the counters, and the four histories are
\* appended to (the other three metrics are those of Sample(1))
ReadNetwork ==
    /\ pc = "update"
    /\ Len(pushed["network"]) < MaxReads
    /\ \E traffic \in NetTraffic, elapsed \in NetElapsed :
         /\ net_io' = net_io + traffic
         /\ now' = now + elapsed
         /\ \E outcome \in NetReads(net_io') :
              LET reading == Reading(net_io', now')
                  val == IF variant = "new"
                         THEN network_sample_new(history["network"], outcome)
                         ELSE scale_net_speed(net_speed_kb(last_net, reading))
                  stats == Sample(1)
                  vals == [m \in Metrics |->
                             CASE m = "cpu"     -> stats.cpu_percent
                               [] m = "memory"  -> stats.memory_percent
                               [] m = "disk"    -> stats.disk_percent
                               [] m = "network" -> val]
              IN  /\ history' = [m \in Metrics |->
                                   deque_append(history[m], vals[m], maxlen)]
                  /\ pushed' = [m \in Metrics |-> Append(pushed[m], vals[m])]
                  /\ last_net' = IF variant = "new" THEN last_net ELSE reading
                  /\ net_reads' = IF outcome.kind = "return"
                                  THEN Append(net_reads, reading)
                                  ELSE net_reads
    /\ UNCHANGED <<variant, driver, pc, current_time, last_update,
                   animation_phase, sensor, touch_pos, frames, error, navVars,
                   maxlen, barVars, gaugeVars, chartVars, composeVars, animVars,
                   lifeVars, paceVars>>

NextNet == ReadNetwork

SpecNet == InitNet /\ [][NextNet]_vars

\* C22: every value stored in the network history buffer lies in the
\* range 0..100, for every sequence of counter readings, in every variant
C22_NetworkHistoryInRange ==
    \A i \in 1 .. Len(history["network"]) :
        /\ FracLeq(Frac(0, 1), history["network"][i])
        /\ FracLeq(history["network"][i], Frac(100, 1))

\* the rate between two consecutive counter readings, in KB/s
TrueRate(a, b) == KBps(b.bytes - a.bytes, b.time - a.time)

\* C25: the value appended when the counters are read is a fully-formed
\* rate: 0 on the first reading, afterwards the difference of this reading
\* and the previous one divided by the time between them (in KB/s, or
\* scaled and clamped as the histories store it)
C25_PushedValueIsARate ==
    [][Len(net_reads') > Len(net_reads)
         => LET val == pushed'["network"][Len(pushed'["network"])]
                n == Len(net_reads)
            IN  IF n = 0
                THEN val = Frac(0, 1)
                ELSE \/ val = TrueRate(net_reads[n], net_reads'[n + 1])
                     \/ val = scale_net_speed(TrueRate(net_reads[n],
                                                       net_reads'[n + 1]))]_vars


-----------------------------------------------------------------------------
(* Navigation on the Drives screen, under Spec *)

\* C23: on the Drives screen (current_screen = 1) every accepted touch that
\* no drive action button claims navigates to another screen: no accepted,
\* unclaimed touch leaves current_screen unchanged
C23_UnclaimedTouchNavigates ==
    [][(/\ current_screen = 1
        /\ accepted' = accepted + 1
        /\ fired' = NoAction)
         => current_screen' # current_screen]_vars


\* the previous handle_touch call was an accepted touch inside the Format
\* button of drive i (every such touch leaves fired = <<"format_drive", i>>)
FormatTappedBefore(i) == fired = <<"format_drive", i>>

\* C24: in new-dashboard a drive is formatted only after a double-tap on
\* its Format button: a touch invokes format_drive on drive i only when the
\* touch before it was on that same button, never on a single touch
C24_FormatNeedsDoubleTap ==
    [][\A i \in 0 .. MaxDrives - 1 :
          (variant = "new" /\ fired' = <<"format_drive", i>>)
             => FormatTappedBefore(i)]_vars


-----------------------------------------------------------------------------
(* new-dashboard: the drive buttons as drawn and as hit-tested *)

Rect(x0, y0, x1, y1) == [x0 |-> x0, y0 |-> y0, x1 |-> x1, y1 |-> y1]

InRect(r, x, y) ==
    /\ r.x0 <= x /\ x <= r.x1
    /\ r.y0 <= y /\ y <= r.y1

\* draw_drives_screen: y_pos at the top of the i-th pass of its loop; it
\* starts at 30 and every pass adds 18 (header) and 50
drawn_y_pos(i) == 30 + (18 + 50) * i

\* draw_drives_screen: the drives drawn before `if y_pos > HEIGHT - 60: break`
DrawnDrives(drives) == {i \in 0 .. drives - 1 : drawn_y_pos(i) <= HEIGHT - 60}

\* draw_drives_screen: button_y = y_pos + 25, after y_pos += 18
drawn_button_y(i) == drawn_y_pos(i) + 18 + 25

\* draw.rectangle([5, button_y, 60, button_y + 15], ...)
DrawnShareRect(i) == Rect(5, drawn_button_y(i), 60, drawn_button_y(i) + 15)
\* draw.rectangle([70, button_y, 125, button_y + 15], ...)
DrawnFormatRect(i) == Rect(70, drawn_button_y(i), 125, drawn_button_y(i) + 15)

\* handle_touch: if 5 <= x <= 60 and button_y <= y <= button_y + 15
TestedShareRect(i) == Rect(5, button_y(i), 60, button_y(i) + 15)
\* handle_touch: if 70 <= x <= 125 and button_y <= y <= button_y + 15
TestedFormatRect(i) == Rect(70, button_y(i), 125, button_y(i) + 15)

\* points handle_touch is called with: on the Share button, on the Format
\* button and right of both; in the rows of the first three drives'
\* buttons as tested (73.., 123.., 173..) and as drawn (73.., 141.., 209..)
ButtonXs == {30, 96, 200}
ButtonYs == {80, 130, 150, 180, 215}

InitButtons ==
    /\ variant = "new"
    /\ loopIdle
    /\ pc = "touch"
    /\ loopParked
    /\ histParked
    /\ barParked
    /\ extParked

\* handle_touch(x, y, drives) with n drives in the list
Tap ==
    /\ pc = "touch"
    /\ \E x \in ButtonXs, y \in ButtonYs, n \in 0 .. MaxDrives :
         /\ touch_pos' = Return(<<x, y>>)
         /\ n_drives' = n
         /\ handle_touch(x, y, n)
    /\ UNCHANGED <<variant, driver, pc, now, current_time, last_update,
                   animation_phase, sensor, frames, error, histVars, barVars,
                   gaugeVars, chartVars, sample, system, composed, animVars,
                   lifeVars, netVars, paceVars>>

\* time passes between two calls
TapWait ==
    /\ pc = "touch"
    /\ now < MaxTime
    /\ now' = now + SleepTicks
    /\ UNCHANGED <<variant, driver, pc, current_time, last_update,
                   animation_phase, sensor, touch_pos, frames, error, navVars,
                   histVars, barVars, extVars>>

NextButtons == Tap \/ TapWait

SpecButtons == InitButtons /\ [][NextButtons]_vars

\* C27: in new-dashboard the drives that are hit-tested are the drives that
\* are drawn, every drive's Share and Format buttons are tested in the
\* rectangles in which they are drawn, and so an accepted touch on the
\* Drives screen fires a drive's action exactly when it lies inside that
\* drive's drawn button
C27_HitTestMatchesDrawing ==
    /\ [](\A n \in 0 .. MaxDrives :
            /\ HitTested(n) = DrawnDrives(n)
            /\ \A i \in DrawnDrives(n) :
                  /\ TestedShareRect(i) = DrawnShareRect(i)
                  /\ TestedFormatRect(i) = DrawnFormatRect(i))
    /\ [][(current_screen = 1 /\ accepted' = accepted + 1)
            => LET x == touch_pos'.val[1]
                   y == touch_pos'.val[2]
               IN  \A i \in DrawnDrives(n_drives') :
                      /\ InRect(DrawnShareRect(i), x, y)
                            <=> fired' = <<"toggle_share", i>>
                      /\ InRect(DrawnFormatRect(i), x, y)
                            <=> fired' = <<"format_drive", i>>]_vars

-----------------------------------------------------------------------------
(* The screen number, under Spec *)

\* C28: in every reachable state of every variant current_screen is an
\* integer with 0 <= current_screen < max_screens, whatever touches
\* (accepted, dropped, at any coordinates, with any drive list) occurred
C28_ScreenInRange ==
    /\ current_screen \in Int
    /\ 0 <= current_screen
    /\ current_screen < max_screens

\* new-dashboard has been to its last screen and back: two accepted
\* touches, the second one outside every button
C28_Witness ==
    /\ variant = "new"
    /\ accepted = 2
    /\ current_screen = 0
    /\ fired = NoAction
    /\ touch_pos # Return(None)


-----------------------------------------------------------------------------
(* Touches and presented frames, under Spec *)

\* C29: in the masterpiece main loop two accepted touches never occur
\* between two consecutive presented frames: once a frame has been
\* displayed, at most one touch has been accepted since the last frame
C29_OneTouchPerFrame ==
    (variant = "masterpiece" /\ frames >= 1) => accepted - shown_at <= 1


-----------------------------------------------------------------------------
(* Tendrils and motion of the boot sequence, under SpecBootFrame *)

\* C26: in the boot sequence the connecting tendrils are drawn only in the
\* third phase (t >= 0.7, explosion intensity > 0) and with the frame's
\* explosion intensity as their alpha; none is drawn while the explosion
\* intensity is 0
C26_TendrilsFollowExplosion ==
    (pc = "rendered" /\ boot.tendril_widths # {})
        => /\ FracLeq(Frac(7, 10), boot.t)
           /\ boot.explosion.num > 0
           /\ FracEq(boot.tendril_alpha, boot.explosion)

\* C30: from one frame of the boot sequence to the next the orbit radius
\* never increases and the base blob size never decreases, across the
\* phase boundaries at t = 0.4 and t = 0.7 too
C30_BlobsMoveInwardAndGrow ==
    [][(pc = "render" /\ boot # <<>> /\ pc' = "rendered")
         => /\ FracLeq(boot'.orbit_radius, boot.orbit_radius)
            /\ FracLeq(boot.blob_size, boot'.blob_size)]_vars
====
